---- MODULE Spec2Model ----
(***************************************************************************)
(* Token lifecycle of utils/auth.py: the OAuth access token and the dxFeed *)
(* streamer token kept in st.session_state, their freshness checks and     *)
(* their refresh against the two upstream endpoints.                       *)
(*                                                                         *)
(* Time is in whole seconds.  One action covers the code that runs between *)
(* two blocking points of a call: from the entry of a function to the      *)
(* request it sends (or to its return), and from the answer of a request   *)
(* to the next request (or to the return).                                 *)
(***************************************************************************)
EXTENDS Integers, Sequences, FiniteSets, TLC

\* ---------------------------------------------------------------- bounds
\* number of clock advances explored
MaxTicks == 2

\* the amounts by which the clock advances between two steps
Deltas == {1, 71699}

\* ------------------------------------------------------ program constants
AccessMargin == 60
StreamerMargin == 300
DefaultExpiresIn == 900
StreamerTTL == 20 * 3600
StatusOK == 200

ACCESS_KEY == "access_token_data"
STREAMER_KEY == "streamer_token_data"
SecretKeys == {"CLIENT_ID", "CLIENT_SECRET", "REFRESH_TOKEN"}

TOKEN_URL == "https://api.tastytrade.com/oauth/token"
QUOTE_URL == "https://api.tastyworks.com/api-quote-tokens"

\* --------------------------------------------------------- input domains
None == "None"
Procs == {"main", "other"}
Main == "main"

\* access tokens the OAuth endpoint hands out, and tokens a caller may pass in
ATokens == {"AT1", "AT2"}
SuppliedTokens == {"AT1", "ATX"}
\* streamer tokens the quote-token endpoint hands out
STokens == {"ST1", "ST2"}
\* expires_in values the OAuth endpoint declares
ExpiresInValues == {59, 60, 61, 900}
\* non-success answers: status and body
ErrorAnswers == {<<401, "unauthorized">>, <<500, "unavailable">>}

EmptyObj == [x \in {} |-> 0]

\* JSON bodies of a 200 answer of the OAuth endpoint
OAuthBodies ==
    {[access_token |-> t, expires_in |-> e] : t \in ATokens, e \in ExpiresInValues}
    \cup {[access_token |-> t] : t \in ATokens}
    \cup {[expires_in |-> e] : e \in ExpiresInValues}
    \cup {EmptyObj}

\* JSON bodies of a 200 answer of the quote-token endpoint
QuoteDatas ==
    {[token |-> t, expires_in |-> e] : t \in STokens, e \in {900}}
    \cup {[token |-> t] : t \in STokens}
    \cup {EmptyObj}

QuoteBodies == {[data |-> d] : d \in QuoteDatas} \cup {EmptyObj}

\* what requests.post / requests.get hand back, or the exception they raise
OAuthResponses ==
    {[kind |-> "response", status_code |-> StatusOK, text |-> "json", json |-> b] :
        b \in OAuthBodies}
    \cup {[kind |-> "response", status_code |-> e[1], text |-> e[2], json |-> EmptyObj] :
        e \in ErrorAnswers}
    \cup {[kind |-> "ConnectionError", status_code |-> 0, text |-> "", json |-> EmptyObj]}

QuoteResponses ==
    {[kind |-> "response", status_code |-> StatusOK, text |-> "json", json |-> b] :
        b \in QuoteBodies}
    \cup {[kind |-> "response", status_code |-> e[1], text |-> e[2], json |-> EmptyObj] :
        e \in ErrorAnswers}
    \cup {[kind |-> "ConnectionError", status_code |-> 0, text |-> "", json |-> EmptyObj]}

\* ------------------------------------------------------------------ state
VARIABLES
    now,            \* time.time()
    ticks,          \* clock advances so far
    secrets,        \* keys present in st.secrets
    session_state,  \* st.session_state: key -> token data
    frame           \* per caller: the call it is in, its locals and its outcome

vars == <<now, ticks, secrets, session_state, frame>>

\* outcome of a call
NoResult == [kind |-> "none"]
Return(v) == [kind |-> "return", value |-> v]
Raise(exc, prefix, text) == [kind |-> "raise", exc |-> exc, prefix |-> prefix, text |-> text]

IdleFrame ==
    [op |-> "none", force_refresh |-> FALSE, supplied |-> None, pc |-> "idle",
     access_token |-> None, found |-> {}, touched |-> {}, credential_loads |-> 0,
     requests |-> <<>>, responses |-> <<>>, result |-> NoResult, at |-> 0]

\* a call just entered; found is what the session state held at that moment
NewFrame(op, supplied, force, ss) ==
    [IdleFrame EXCEPT !.op = op, !.supplied = supplied, !.force_refresh = force,
                      !.access_token = supplied, !.pc = "entry", !.found = DOMAIN ss]

\* the clock at the latest step of the call
Stamp(f, t) == [f EXCEPT !.at = t]

\* the call ends: the value goes to the caller
Returned(f, v) == [f EXCEPT !.pc = "done", !.result = Return(v)]

\* the call ends: nothing catches the exception on the way up
Raised(f, exc, prefix, text) == [f EXCEPT !.pc = "done", !.result = Raise(exc, prefix, text)]


\* the request goes out on the wire and the call blocks on the answer
Sent(f, url, pc) == [f EXCEPT !.requests = Append(@, url), !.pc = pc]

\* ------------------------------------------------------- load_credentials
\* variant: the refresh token is not asked for
load_credentials_no_refresh_token(secr) ==
    IF {"CLIENT_ID", "CLIENT_SECRET"} \subseteq secr
    THEN [kind |-> "return",
          value |-> [client_id |-> "CLIENT_ID", client_secret |-> "CLIENT_SECRET",
                     refresh_token |-> "REFRESH_TOKEN"]]
    ELSE Raise("ValueError", "Missing required secrets.", "")

\* st.secrets[...] raises KeyError on the first key that is not there
load_credentials(secr) ==
    IF SecretKeys \subseteq secr
    THEN [kind |-> "return",
          value |-> [client_id |-> "CLIENT_ID", client_secret |-> "CLIENT_SECRET",
                     refresh_token |-> "REFRESH_TOKEN"]]
    ELSE Raise("ValueError", "Missing required secrets.", "")

\* ------------------------------------------------------- get_streamer_token
\* variant: the access token's margin applied to the streamer token
StreamerFreshAccessMargin(ss, t) ==
    /\ STREAMER_KEY \in DOMAIN ss
    /\ ss[STREAMER_KEY].expires_at > t + AccessMargin

\* the cached streamer token may be handed out
StreamerFresh(ss, t) ==
    /\ STREAMER_KEY \in DOMAIN ss
    /\ ss[STREAMER_KEY].expires_at > t + StreamerMargin

\* GET to the quote-token endpoint with the bearer token
QuoteRequest(f, token) ==
    Sent([f EXCEPT !.access_token = token], QUOTE_URL, "s_wait")

\* ---------------------------------------------------------- get_access_token
\* variant: the streamer token's margin applied to the access token
AccessFreshStreamerMargin(ss, t) ==
    /\ ACCESS_KEY \in DOMAIN ss
    /\ ss[ACCESS_KEY].expires_at > t + StreamerMargin

\* variant: the comparison lets the boundary instant through
AccessFreshInclusive(ss, t) ==
    /\ ACCESS_KEY \in DOMAIN ss
    /\ ss[ACCESS_KEY].expires_at >= t + AccessMargin

\* variant: the safety margin is left out
AccessFreshNoMargin(ss, t) ==
    /\ ACCESS_KEY \in DOMAIN ss
    /\ ss[ACCESS_KEY].expires_at > t

\* the cached access token may be handed out
AccessFresh(ss, t) ==
    /\ ACCESS_KEY \in DOMAIN ss
    /\ ss[ACCESS_KEY].expires_at > t + AccessMargin

\* get_access_token hands a token to whoever called it: the outer caller, or
\* get_streamer_token, which goes on with its request
AccessReturned(f, token) ==
    IF f.op = "access" THEN Returned(f, token) ELSE QuoteRequest(f, token)

\* variant: the force_refresh argument is not looked at
AccessForceIgnored(f) == FALSE

\* force_refresh as get_access_token sees it: get_streamer_token calls it bare
AccessForce(f) == f.op = "access" /\ f.force_refresh

\* from the entry of get_access_token to its cached return or to the POST
AccessEntry(f, ss, t, secr) ==
    LET g == IF AccessForce(f) THEN f ELSE [f EXCEPT !.touched = @ \cup {ACCESS_KEY}] IN
    IF ~AccessForce(f) /\ AccessFresh(ss, t)
    THEN AccessReturned(g, ss[ACCESS_KEY].access_token)
    ELSE LET h == [g EXCEPT !.credential_loads = @ + 1]
             credentials == load_credentials(secr) IN
         IF credentials.kind = "raise"
         THEN [h EXCEPT !.pc = "done", !.result = credentials]
         ELSE Sent(h, TOKEN_URL, "a_wait")

\* variant: an entry that is there keeps its expiry and only gets the new token
AccessStoreKeepsExpiry(ss, body, t) ==
    LET expires_in == IF "expires_in" \in DOMAIN body THEN body.expires_in
                      ELSE DefaultExpiresIn
        data == [access_token |-> body.access_token,
                 expires_at |-> IF ACCESS_KEY \in DOMAIN ss THEN ss[ACCESS_KEY].expires_at
                                ELSE t + expires_in]
    IN  [k \in DOMAIN ss \cup {ACCESS_KEY} |-> IF k = ACCESS_KEY THEN data ELSE ss[k]]

\* variant: the session state is replaced, not updated
AccessStoreAlone(ss, body, t) ==
    LET expires_in == IF "expires_in" \in DOMAIN body THEN body.expires_in
                      ELSE DefaultExpiresIn
        data == [access_token |-> body.access_token, expires_at |-> t + expires_in]
    IN  [k \in {ACCESS_KEY} |-> data]

\* variant: the default validity is an hour
AccessStoreHourDefault(ss, body, t) ==
    LET expires_in == IF "expires_in" \in DOMAIN body THEN body.expires_in ELSE 3600
        data == [access_token |-> body.access_token, expires_at |-> t + expires_in]
    IN  [k \in DOMAIN ss \cup {ACCESS_KEY} |-> IF k = ACCESS_KEY THEN data ELSE ss[k]]

\* the session state after the access token of a 200 answer is stored
AccessStore(ss, body, t) ==
    LET expires_in == IF "expires_in" \in DOMAIN body THEN body.expires_in
                      ELSE DefaultExpiresIn
        data == [access_token |-> body.access_token, expires_at |-> t + expires_in]
    IN  [k \in DOMAIN ss \cup {ACCESS_KEY} |-> IF k = ACCESS_KEY THEN data ELSE ss[k]]

\* variant: a failed exchange drops the entry
AccessAnswerStateClearing(ss, r, t) ==
    IF r.kind = "response" /\ r.status_code = StatusOK /\ "access_token" \in DOMAIN r.json
    THEN AccessStore(ss, r.json, t)
    ELSE [k \in DOMAIN ss \ {ACCESS_KEY} |-> ss[k]]

\* the session state the answer of the OAuth endpoint leaves
AccessAnswerState(ss, r, t) ==
    IF r.kind = "response" /\ r.status_code = StatusOK /\ "access_token" \in DOMAIN r.json
    THEN AccessStore(ss, r.json, t)
    ELSE ss

\* variant: a failed exchange is tried once more
AccessAnswerRetrying(f, r) ==
    LET g == [f EXCEPT !.responses = Append(@, r)] IN
    IF r.kind # "response" THEN Raised(g, r.kind, "", "")
    ELSE IF r.status_code # StatusOK
         THEN IF Len(f.requests) < 2 /\ f.op = "access"
              THEN Sent([g EXCEPT !.responses = f.responses], TOKEN_URL, "a_wait")
              ELSE Raised(g, "Exception", "Token error: ", r.text)
    ELSE IF "access_token" \notin DOMAIN r.json THEN Raised(g, "KeyError", "access_token", "")
    ELSE AccessReturned([g EXCEPT !.touched = @ \cup {ACCESS_KEY}], r.json.access_token)

\* variant: a caller that wants a streamer token goes on without an access token
AccessAnswerSwallowing(f, r) ==
    LET g == [f EXCEPT !.responses = Append(@, r)] IN
    IF r.kind # "response"
    THEN IF f.op = "access" THEN Raised(g, r.kind, "", "") ELSE QuoteRequest(g, None)
    ELSE IF r.status_code # StatusOK
         THEN IF f.op = "access" THEN Raised(g, "Exception", "Token error: ", r.text)
              ELSE QuoteRequest(g, None)
    ELSE IF "access_token" \notin DOMAIN r.json THEN Raised(g, "KeyError", "access_token", "")
    ELSE AccessReturned([g EXCEPT !.touched = @ \cup {ACCESS_KEY}], r.json.access_token)

\* from the answer of the POST to the end of get_access_token
AccessAnswer(f, r) ==
    LET g == [f EXCEPT !.responses = Append(@, r)] IN
    IF r.kind # "response" THEN Raised(g, r.kind, "", "")
    ELSE IF r.status_code # StatusOK THEN Raised(g, "Exception", "Token error: ", r.text)
    ELSE IF "access_token" \notin DOMAIN r.json THEN Raised(g, "KeyError", "access_token", "")
    ELSE AccessReturned([g EXCEPT !.touched = @ \cup {ACCESS_KEY}], r.json.access_token)

\* ------------------------------------------------- get_streamer_token, cont.
\* variant: the access token is always taken from get_access_token()
StreamerEntryIgnoresSupplied(f, ss, t, secr) ==
    LET g == IF f.force_refresh THEN f ELSE [f EXCEPT !.touched = @ \cup {STREAMER_KEY}] IN
    IF ~f.force_refresh /\ StreamerFresh(ss, t)
    THEN Returned(g, ss[STREAMER_KEY].token)
    ELSE AccessEntry(g, ss, t, secr)

\* from the entry of get_streamer_token to its cached return or to a request
StreamerEntry(f, ss, t, secr) ==
    LET g == IF f.force_refresh THEN f ELSE [f EXCEPT !.touched = @ \cup {STREAMER_KEY}] IN
    IF ~f.force_refresh /\ StreamerFresh(ss, t)
    THEN Returned(g, ss[STREAMER_KEY].token)
    ELSE IF f.access_token = None
         THEN AccessEntry(g, ss, t, secr)
         ELSE QuoteRequest(g, f.access_token)

\* the quote-token answer carries result["data"]["token"]
HasStreamerToken(body) ==
    /\ "data" \in DOMAIN body
    /\ "token" \in DOMAIN body.data

\* variant: the validity is not added to the clock
StreamerStoreNoTTL(ss, body, t) ==
    LET data == [token |-> body.data.token, expires_at |-> t]
    IN  [k \in DOMAIN ss \cup {STREAMER_KEY} |-> IF k = STREAMER_KEY THEN data ELSE ss[k]]

\* variant: an expires_in of the answer is honoured
StreamerStoreDeclared(ss, body, t) ==
    LET ttl == IF "expires_in" \in DOMAIN body.data THEN body.data.expires_in
               ELSE StreamerTTL
        data == [token |-> body.data.token, expires_at |-> t + ttl]
    IN  [k \in DOMAIN ss \cup {STREAMER_KEY} |-> IF k = STREAMER_KEY THEN data ELSE ss[k]]

\* the session state after the streamer token of a 200 answer is stored
StreamerStore(ss, body, t) ==
    LET data == [token |-> body.data.token, expires_at |-> t + StreamerTTL]
    IN  [k \in DOMAIN ss \cup {STREAMER_KEY} |-> IF k = STREAMER_KEY THEN data ELSE ss[k]]

\* variant: a failed quote-token request takes the access entry back out
StreamerAnswerStateRollback(ss, r, t) ==
    IF r.kind = "response" /\ r.status_code = StatusOK /\ HasStreamerToken(r.json)
    THEN StreamerStore(ss, r.json, t)
    ELSE [k \in DOMAIN ss \ {ACCESS_KEY} |-> ss[k]]

\* the session state the answer of the quote-token endpoint leaves
StreamerAnswerState(ss, r, t) ==
    IF r.kind = "response" /\ r.status_code = StatusOK /\ HasStreamerToken(r.json)
    THEN StreamerStore(ss, r.json, t)
    ELSE ss

\* variant: a missing token is looked up with a default
StreamerAnswerLenient(f, r) ==
    LET g == [f EXCEPT !.responses = Append(@, r)] IN
    IF r.kind # "response" THEN Raised(g, r.kind, "", "")
    ELSE IF r.status_code # StatusOK
         THEN Raised(g, "Exception", "Streamer token error: ", r.text)
    ELSE IF ~HasStreamerToken(r.json) THEN Returned(g, None)
    ELSE Returned([g EXCEPT !.touched = @ \cup {STREAMER_KEY}], r.json.data.token)

\* from the answer of the GET to the end of get_streamer_token
StreamerAnswer(f, r) ==
    LET g == [f EXCEPT !.responses = Append(@, r)] IN
    IF r.kind # "response" THEN Raised(g, r.kind, "", "")
    ELSE IF r.status_code # StatusOK
         THEN Raised(g, "Exception", "Streamer token error: ", r.text)
    ELSE IF "data" \notin DOMAIN r.json THEN Raised(g, "KeyError", "data", "")
    ELSE IF "token" \notin DOMAIN r.json.data THEN Raised(g, "KeyError", "token", "")
    ELSE Returned([g EXCEPT !.touched = @ \cup {STREAMER_KEY}], r.json.data.token)

\* ----------------------------------------------------------------- actions
Init ==
    /\ now = 0
    /\ ticks = 0
    /\ secrets \in SUBSET SecretKeys
    /\ session_state = EmptyObj
    /\ frame = [p \in Procs |-> IdleFrame]

\* a caller is between two calls
AtRest(p) == frame[p].pc \in {"idle", "done"}

\* get_access_token(force_refresh)
CallAccess(p) ==
    /\ AtRest(p)
    /\ \E force \in BOOLEAN :
        frame' = [frame EXCEPT
                    ![p] = Stamp(AccessEntry(NewFrame("access", None, force, session_state),
                                             session_state, now, secrets), now)]
    /\ UNCHANGED <<now, ticks, secrets, session_state>>

\* get_streamer_token(access_token, force_refresh)
CallStreamer(p) ==
    /\ AtRest(p)
    /\ \E token \in SuppliedTokens \cup {None}, force \in BOOLEAN :
        frame' = [frame EXCEPT
                    ![p] = Stamp(StreamerEntry(NewFrame("streamer", token, force,
                                                        session_state),
                                               session_state, now, secrets), now)]
    /\ UNCHANGED <<now, ticks, secrets, session_state>>

\* variant: ensure_streamer_token asks for a refresh every time
CallEnsureForced(p) ==
    /\ AtRest(p)
    /\ frame' = [frame EXCEPT
                    ![p] = Stamp(StreamerEntry(NewFrame("ensure", None, TRUE,
                                                        session_state),
                                               session_state, now, secrets), now)]
    /\ UNCHANGED <<now, ticks, secrets, session_state>>

\* ensure_streamer_token()
CallEnsure(p) ==
    /\ AtRest(p)
    /\ frame' = [frame EXCEPT
                    ![p] = Stamp(StreamerEntry(NewFrame("ensure", None, FALSE,
                                                        session_state),
                                               session_state, now, secrets), now)]
    /\ UNCHANGED <<now, ticks, secrets, session_state>>

\* requests.post comes back
AccessResponse(p) ==
    /\ frame[p].pc = "a_wait"
    /\ \E r \in OAuthResponses :
        /\ session_state' = AccessAnswerState(session_state, r, now)
        /\ frame' = [frame EXCEPT ![p] = Stamp(AccessAnswer(frame[p], r), now)]
    /\ UNCHANGED <<now, ticks, secrets>>

\* requests.get comes back
StreamerResponse(p) ==
    /\ frame[p].pc = "s_wait"
    /\ \E r \in QuoteResponses :
        /\ session_state' = StreamerAnswerState(session_state, r, now)
        /\ frame' = [frame EXCEPT ![p] = Stamp(StreamerAnswer(frame[p], r), now)]
    /\ UNCHANGED <<now, ticks, secrets>>

\* the clock moves on
Tick ==
    /\ ticks < MaxTicks
    /\ \E d \in Deltas : now' = now + d
    /\ ticks' = ticks + 1
    /\ UNCHANGED <<secrets, session_state, frame>>

\* one caller at a time, as in one Streamlit session
Next ==
    \/ CallAccess(Main)
    \/ CallStreamer(Main)
    \/ CallEnsure(Main)
    \/ AccessResponse(Main)
    \/ StreamerResponse(Main)
    \/ Tick

Spec == Init /\ [][Next]_vars

\* ------------------------------------------------- vocabulary of the claims
StreamerOps == {"streamer", "ensure"}

Has(requests, url) == \E i \in 1..Len(requests) : requests[i] = url

\* caller p enters a call in this step
Entered(p) == AtRest(p) /\ frame'[p] # frame[p]

\* caller p gets the answer of the OAuth endpoint, of the quote-token endpoint
AccessAnswered(p) == frame[p].pc = "a_wait" /\ frame'[p] # frame[p]
StreamerAnswered(p) == frame[p].pc = "s_wait" /\ frame'[p] # frame[p]

\* the answer caller p got in this step
Answer(p) == frame'[p].responses[Len(frame'[p].responses)]

\* a 200 answer that carries the token
OAuthSuccess(r) ==
    r.kind = "response" /\ r.status_code = 200 /\ "access_token" \in DOMAIN r.json
QuoteSuccess(r) ==
    /\ r.kind = "response" /\ r.status_code = 200
    /\ "data" \in DOMAIN r.json /\ "token" \in DOMAIN r.json.data

\* an answer with a non-success status
NonSuccess(r) == r.kind = "response" /\ r.status_code # 200

\* the entry of a kind is the same before and after the step
EntryUnchanged(key) ==
    /\ (key \in DOMAIN session_state') = (key \in DOMAIN session_state)
    /\ key \in DOMAIN session_state => session_state'[key] = session_state[key]

\* frame f ended with the cached value v: no credential load, no request
ServedFromCache(f, v) ==
    /\ f.pc = "done" /\ f.result = Return(v)
    /\ f.requests = <<>> /\ f.credential_loads = 0

\* frame f ended with the configuration error, before any request
ConfigurationError(f) ==
    /\ f.pc = "done" /\ f.result.kind = "raise" /\ f.result.exc = "ValueError"
    /\ f.requests = <<>>

\* frame f went into the access-token refresh: credentials loaded once, then the
\* POST, or the configuration error when a secret is missing
AccessRefreshStarted(f) ==
    /\ f.credential_loads = 1
    /\ IF SecretKeys \subseteq secrets
       THEN f.pc = "a_wait" /\ f.requests = <<TOKEN_URL>>
       ELSE ConfigurationError(f)

\* frame f sent the quote-token request first thing, with bearer token v
QuoteRequestSent(f, v) ==
    f.pc = "s_wait" /\ f.requests = <<QUOTE_URL>> /\ f.access_token = v

\* ---------------------------------------------------------------------- C1
\* C1: a non-forced acquisition never hands out a cached token whose entry has
\* now + margin >= expires_at at that moment (margin 60 s for the access token,
\* 300 s for the streamer token); this covers the access token that
\* get_streamer_token takes from the cache for its request.
C1_NoStaleCachedToken ==
    [][\A p \in Procs :
        Entered(p) /\ ~frame'[p].force_refresh =>
            LET f == frame'[p] IN
            /\ (f.op = "access" /\ f.pc = "done" /\ f.result.kind = "return"
                    /\ f.requests = <<>>) =>
                /\ ACCESS_KEY \in DOMAIN session_state
                /\ f.result.value = session_state[ACCESS_KEY].access_token
                /\ ~(now + 60 >= session_state[ACCESS_KEY].expires_at)
            /\ (f.op \in StreamerOps /\ f.pc = "done" /\ f.result.kind = "return"
                    /\ f.requests = <<>>) =>
                /\ STREAMER_KEY \in DOMAIN session_state
                /\ f.result.value = session_state[STREAMER_KEY].token
                /\ ~(now + 300 >= session_state[STREAMER_KEY].expires_at)
            /\ (f.op \in StreamerOps /\ f.supplied = None /\ f.pc = "s_wait"
                    /\ f.requests = <<QUOTE_URL>>) =>
                /\ ACCESS_KEY \in DOMAIN session_state
                /\ f.access_token = session_state[ACCESS_KEY].access_token
                /\ ~(now + 60 >= session_state[ACCESS_KEY].expires_at)
      ]_vars

\* a non-forced get_access_token found an entry with now + 60 = expires_at and
\* went to the exchange instead of handing it out
C1_Witness ==
    /\ frame[Main].op = "access" /\ ~frame[Main].force_refresh
    /\ frame[Main].pc = "a_wait"
    /\ ACCESS_KEY \in DOMAIN session_state
    /\ session_state[ACCESS_KEY].expires_at = now + 60

\* ---------------------------------------------------------------------- C2
\* C2 as stated: get_access_token(False) returns the cached value, with no
\* credential load and no request, exactly when an entry exists with
\* now + 60 < expires_at; in every other case it performs the OAuth exchange.
C2_Original ==
    [][\A p \in Procs :
        Entered(p) /\ frame'[p].op = "access" /\ ~frame'[p].force_refresh =>
            IF /\ ACCESS_KEY \in DOMAIN session_state
               /\ now + 60 < session_state[ACCESS_KEY].expires_at
            THEN ServedFromCache(frame'[p], session_state[ACCESS_KEY].access_token)
            ELSE frame'[p].pc = "a_wait" /\ frame'[p].requests = <<TOKEN_URL>>
      ]_vars

\* C2 amended: get_access_token(False) returns the cached value, with no
\* credential load and no request, exactly when an entry exists with
\* now + 60 < expires_at; in every other case (no entry, or now + 60 >=
\* expires_at, equality included) it loads the credentials and performs the
\* OAuth exchange, unless a secret is missing, and then it fails with the
\* configuration error and no request.
C2_AccessFreshnessDecides ==
    [][\A p \in Procs :
        Entered(p) /\ frame'[p].op = "access" /\ ~frame'[p].force_refresh =>
            IF /\ ACCESS_KEY \in DOMAIN session_state
               /\ now + 60 < session_state[ACCESS_KEY].expires_at
            THEN ServedFromCache(frame'[p], session_state[ACCESS_KEY].access_token)
            ELSE AccessRefreshStarted(frame'[p])
      ]_vars

\* the cached access token was handed out with one second to spare
C2_Witness ==
    /\ frame[Main].op = "access" /\ ~frame[Main].force_refresh
    /\ ACCESS_KEY \in DOMAIN session_state
    /\ session_state[ACCESS_KEY].expires_at = now + 61
    /\ ServedFromCache(frame[Main], session_state[ACCESS_KEY].access_token)

\* ---------------------------------------------------------------------- C3
\* what get_streamer_token does once it is past its cache: with a token supplied
\* it sends the quote-token request at once; without one it calls
\* get_access_token(), which hands over the cached access token if that one is
\* fresh, and goes into the access-token refresh if not
StreamerRefreshStarted(f) ==
    IF f.supplied # None THEN QuoteRequestSent(f, f.supplied)
    ELSE IF /\ ACCESS_KEY \in DOMAIN session_state
            /\ now + 60 < session_state[ACCESS_KEY].expires_at
         THEN QuoteRequestSent(f, session_state[ACCESS_KEY].access_token)
         ELSE AccessRefreshStarted(f)

\* the nested get_access_token of caller p comes back in this step: with a token,
\* and the quote-token request follows at once, or with an error, and no
\* quote-token request is ever sent
NestedAccessSettled(p) ==
    IF OAuthSuccess(Answer(p))
    THEN /\ frame'[p].pc = "s_wait"
         /\ frame'[p].requests = <<TOKEN_URL, QUOTE_URL>>
         /\ frame'[p].access_token = Answer(p).json.access_token
    ELSE /\ frame'[p].pc = "done" /\ frame'[p].result.kind = "raise"
         /\ frame'[p].requests = <<TOKEN_URL>>

\* C3 as stated: get_streamer_token(_, False) returns the cached value with no
\* request to either endpoint exactly when an entry exists with
\* now + 300 < expires_at; in every other case it issues a request to the
\* quote-token endpoint.
C3_Original ==
    [][\A p \in Procs :
        /\ Entered(p) /\ frame'[p].op \in StreamerOps /\ ~frame'[p].force_refresh =>
            IF /\ STREAMER_KEY \in DOMAIN session_state
               /\ now + 300 < session_state[STREAMER_KEY].expires_at
            THEN ServedFromCache(frame'[p], session_state[STREAMER_KEY].token)
            ELSE ~(frame'[p].pc = "done" /\ frame'[p].result.kind = "return")
        /\ (/\ frame'[p].op \in StreamerOps /\ ~frame'[p].force_refresh
            /\ frame'[p].pc = "done"
            /\ ~(frame'[p].result.kind = "return" /\ frame'[p].requests = <<>>)) =>
            Has(frame'[p].requests, QUOTE_URL)
      ]_vars

\* C3 amended: get_streamer_token(_, False) returns the cached value with no
\* request to either endpoint exactly when an entry exists with
\* now + 300 < expires_at; in every other case it issues a request to the
\* quote-token endpoint as soon as it holds an access token (the one supplied,
\* or the one its nested get_access_token() returns), and issues none only when
\* that nested acquisition fails.
C3_StreamerFreshnessDecides ==
    [][\A p \in Procs :
        /\ Entered(p) /\ frame'[p].op \in StreamerOps /\ ~frame'[p].force_refresh =>
            IF /\ STREAMER_KEY \in DOMAIN session_state
               /\ now + 300 < session_state[STREAMER_KEY].expires_at
            THEN ServedFromCache(frame'[p], session_state[STREAMER_KEY].token)
            ELSE StreamerRefreshStarted(frame'[p])
        /\ AccessAnswered(p) /\ frame[p].op \in StreamerOps /\ ~frame[p].force_refresh =>
            NestedAccessSettled(p)
      ]_vars

\* a non-forced get_streamer_token found an entry with now + 300 = expires_at
\* and sent the quote-token request
C3_Witness ==
    /\ frame[Main].op \in StreamerOps /\ ~frame[Main].force_refresh
    /\ frame[Main].pc = "s_wait"
    /\ STREAMER_KEY \in frame[Main].found
    /\ STREAMER_KEY \in DOMAIN session_state
    /\ session_state[STREAMER_KEY].expires_at = now + 300

\* ---------------------------------------------------------------------- C4
\* the request a call of a kind makes for that kind
KindURL(op) == IF op = "access" THEN TOKEN_URL ELSE QUOTE_URL

\* C4 as stated: with force_refresh=True a call always performs the network
\* exchange of its kind, whatever the cache holds, and a success answer
\* overwrites the entry of that kind with the new value and a new expiry.
C4_Original ==
    \A p \in Procs :
        frame[p].pc = "done" /\ frame[p].force_refresh =>
            /\ Has(frame[p].requests, KindURL(frame[p].op))
            /\ frame[p].result.kind = "return" =>
                IF frame[p].op = "access"
                THEN session_state[ACCESS_KEY].access_token = frame[p].result.value
                ELSE session_state[STREAMER_KEY].token = frame[p].result.value

\* C4 amended: with force_refresh=True a call never answers from the cache,
\* whatever the cache holds (absent, stale or fresh): a forced
\* get_access_token loads the credentials and performs the OAuth exchange
\* unless a secret is missing; a forced get_streamer_token issues the
\* quote-token request as soon as it holds an access token (the one supplied,
\* or the one its nested non-forced get_access_token() returns) and issues none
\* only when that nested acquisition fails.  On a success answer the entry of
\* that kind is overwritten with the newly obtained value and a new expiry.
C4_ForcedRefreshBypassesCache ==
    [][\A p \in Procs :
        /\ Entered(p) /\ frame'[p].force_refresh =>
            IF frame'[p].op = "access" THEN AccessRefreshStarted(frame'[p])
            ELSE StreamerRefreshStarted(frame'[p])
        /\ AccessAnswered(p) /\ frame[p].force_refresh /\ frame[p].op # "access" =>
            NestedAccessSettled(p)
        /\ (/\ AccessAnswered(p) /\ frame[p].force_refresh /\ frame[p].op = "access"
            /\ OAuthSuccess(Answer(p))) =>
            /\ frame'[p].pc = "done"
            /\ frame'[p].result = Return(Answer(p).json.access_token)
            /\ session_state'[ACCESS_KEY].access_token = Answer(p).json.access_token
            /\ session_state'[ACCESS_KEY].expires_at =
                   now + (IF "expires_in" \in DOMAIN Answer(p).json
                          THEN Answer(p).json.expires_in ELSE 900)
        /\ (/\ StreamerAnswered(p) /\ frame[p].force_refresh
            /\ QuoteSuccess(Answer(p))) =>
            /\ frame'[p].pc = "done"
            /\ frame'[p].result = Return(Answer(p).json.data.token)
            /\ session_state'[STREAMER_KEY].token = Answer(p).json.data.token
            /\ session_state'[STREAMER_KEY].expires_at = now + 72000
      ]_vars

\* a forced get_access_token found a fresh entry holding another token and
\* replaced it with the one the exchange gave
C4_Witness ==
    /\ frame[Main].op = "access" /\ frame[Main].force_refresh
    /\ frame[Main].pc = "done" /\ frame[Main].result.kind = "return"
    /\ ACCESS_KEY \in frame[Main].found
    /\ frame[Main].requests = <<TOKEN_URL>>
    /\ session_state[ACCESS_KEY].access_token = frame[Main].result.value
    /\ session_state[ACCESS_KEY].expires_at = now + 900
    /\ now = 1

\* ---------------------------------------------------------------------- C5
\* C5: a non-success status in answer to a refresh ends the call with an error
\* that carries the upstream body, and leaves the entry of that kind (value and
\* expires_at) exactly as it was; an entry changes only in a step in which its
\* endpoint answers with success, so a stale entry stays until then.
C5_FailedRefreshKeepsEntry ==
    [][/\ \A p \in Procs :
            /\ AccessAnswered(p) /\ NonSuccess(Answer(p)) =>
                /\ frame'[p].pc = "done"
                /\ frame'[p].result = Raise("Exception", "Token error: ", Answer(p).text)
                /\ EntryUnchanged(ACCESS_KEY)
            /\ StreamerAnswered(p) /\ NonSuccess(Answer(p)) =>
                /\ frame'[p].pc = "done"
                /\ frame'[p].result =
                       Raise("Exception", "Streamer token error: ", Answer(p).text)
                /\ EntryUnchanged(STREAMER_KEY)
       /\ ~EntryUnchanged(ACCESS_KEY) =>
            \E p \in Procs : AccessAnswered(p) /\ OAuthSuccess(Answer(p))
       /\ ~EntryUnchanged(STREAMER_KEY) =>
            \E p \in Procs : StreamerAnswered(p) /\ QuoteSuccess(Answer(p))
      ]_vars

\* a refresh of a stale access entry was answered 401: the call failed with the
\* body and the stale entry is still there
C5_Witness ==
    /\ frame[Main].op = "access" /\ frame[Main].pc = "done"
    /\ ACCESS_KEY \in frame[Main].found
    /\ frame[Main].result = Raise("Exception", "Token error: ", "unauthorized")
    /\ ACCESS_KEY \in DOMAIN session_state
    /\ now + 60 >= session_state[ACCESS_KEY].expires_at

\* ---------------------------------------------------------------------- C6
\* C6: after a successful access-token exchange the cached access entry has
\* expires_at = now + expires_in when the answer declares expires_in, and
\* exactly now + 900 when it does not, now being the instant the answer is
\* taken in.
C6_AccessExpiry ==
    [][\A p \in Procs :
        AccessAnswered(p) /\ OAuthSuccess(Answer(p)) =>
            /\ ACCESS_KEY \in DOMAIN session_state'
            /\ "expires_in" \in DOMAIN Answer(p).json =>
                session_state'[ACCESS_KEY].expires_at = now + Answer(p).json.expires_in
            /\ "expires_in" \notin DOMAIN Answer(p).json =>
                session_state'[ACCESS_KEY].expires_at = now + 900
      ]_vars

\* an answer without expires_in, taken in after the clock had moved
C6_Witness ==
    /\ frame[Main].op = "access" /\ frame[Main].pc = "done"
    /\ frame[Main].result.kind = "return"
    /\ Len(frame[Main].responses) = 1
    /\ "expires_in" \notin DOMAIN frame[Main].responses[1].json
    /\ now = 1
    /\ session_state[ACCESS_KEY].expires_at = 901

\* ---------------------------------------------------------------------- C7
\* C7: after every successful streaming-token exchange the cached streamer
\* entry is the token of data.token with expires_at = now + 72000, whatever
\* else the answer carries.
C7_StreamerExpiryFixed ==
    [][\A p \in Procs :
        StreamerAnswered(p) /\ QuoteSuccess(Answer(p)) =>
            /\ STREAMER_KEY \in DOMAIN session_state'
            /\ session_state'[STREAMER_KEY] =
                   [token |-> Answer(p).json.data.token, expires_at |-> now + 72000]
      ]_vars

\* an answer that carries an expires_in of its own next to the token
C7_Witness ==
    /\ frame[Main].op \in StreamerOps /\ frame[Main].pc = "done"
    /\ frame[Main].result.kind = "return"
    /\ frame[Main].requests = <<QUOTE_URL>>
    /\ "expires_in" \in DOMAIN frame[Main].responses[1].json.data
    /\ session_state[STREAMER_KEY].expires_at = now + 72000

\* ---------------------------------------------------------------------- C8
\* both endpoints answered call f, each with success
BothAnsweredSuccessfully(f) ==
    /\ \E i \in 1..Len(f.responses) :
        f.requests[i] = TOKEN_URL /\ OAuthSuccess(f.responses[i])
    /\ \E i \in 1..Len(f.responses) :
        f.requests[i] = QUOTE_URL /\ QuoteSuccess(f.responses[i])

\* ensure_streamer_token() found nothing cached, was answered with success by
\* both endpoints and is over
ColdEnsureDone(f) ==
    /\ f.op = "ensure" /\ f.found = {} /\ f.pc = "done"
    /\ BothAnsweredSuccessfully(f)

\* C8: from a cold cache, with both endpoints answering successfully,
\* ensure_streamer_token() issues one OAuth exchange, then one quote-token
\* request, and returns the token of the quote-token answer; a second
\* ensure_streamer_token() before the clock advances returns the same value
\* with no request at all.
C8_ColdThenCached ==
    [][\A p \in Procs :
        /\ ColdEnsureDone(frame'[p]) =>
            /\ frame'[p].requests = <<TOKEN_URL, QUOTE_URL>>
            /\ frame'[p].result = Return(frame'[p].responses[2].json.data.token)
        /\ (/\ ColdEnsureDone(frame[p]) /\ frame[p].at = now
            /\ Entered(p) /\ frame'[p].op = "ensure") =>
            /\ frame'[p].pc = "done"
            /\ frame'[p].result = frame[p].result
            /\ frame'[p].requests = <<>>
      ]_vars

\* the first call is over and the clock has not moved since
C8_Witness ==
    /\ ColdEnsureDone(frame[Main])
    /\ frame[Main].requests = <<TOKEN_URL, QUOTE_URL>>
    /\ frame[Main].result = Return("ST1")
    /\ frame[Main].at = now
    /\ session_state[STREAMER_KEY] = [token |-> "ST1", expires_at |-> now + 72000]
    /\ session_state[ACCESS_KEY] = [access_token |-> "AT1", expires_at |-> now + 900]

\* ---------------------------------------------------------------------- C9
\* C9: no execution of get_access_token, forced or not, called from outside or
\* from get_streamer_token, issues a request to the quote-token endpoint or
\* reads or writes the streamer entry.
C9_AccessLeavesStreamerAlone ==
    [][\A p \in Procs :
        /\ frame'[p].op = "access" =>
            /\ ~Has(frame'[p].requests, QUOTE_URL)
            /\ STREAMER_KEY \notin frame'[p].touched
        /\ frame'[p] # frame[p] /\ frame'[p].op = "access" => EntryUnchanged(STREAMER_KEY)
        /\ frame'[p].pc = "a_wait" => ~Has(frame'[p].requests, QUOTE_URL)
        /\ AccessAnswered(p) => EntryUnchanged(STREAMER_KEY)
      ]_vars

\* get_access_token refreshed the access entry while a streamer entry was there
C9_Witness ==
    /\ frame[Main].op = "access" /\ frame[Main].pc = "done"
    /\ frame[Main].result.kind = "return"
    /\ frame[Main].requests = <<TOKEN_URL>>
    /\ STREAMER_KEY \in frame[Main].found
    /\ STREAMER_KEY \in DOMAIN session_state

\* --------------------------------------------------------------------- C10
\* get_access_token is about to refresh: forced, or nothing fresh to hand out
AccessRefreshNeeded(force) ==
    force \/ ~(/\ ACCESS_KEY \in DOMAIN session_state
               /\ now + 60 < session_state[ACCESS_KEY].expires_at)

\* get_streamer_token is about to refresh
StreamerRefreshNeeded(force) ==
    force \/ ~(/\ STREAMER_KEY \in DOMAIN session_state
               /\ now + 300 < session_state[STREAMER_KEY].expires_at)

\* C10: when an access-token refresh is needed and any of the three secrets is
\* missing, the call fails with the configuration error before any request is
\* issued, after a single credential load, and both entries stay as they were.
C10_MissingSecretFailsEarly ==
    [][\A p \in Procs :
        (/\ Entered(p)
         /\ ~(SecretKeys \subseteq secrets)
         /\ \/ frame'[p].op = "access" /\ AccessRefreshNeeded(frame'[p].force_refresh)
            \/ /\ frame'[p].op \in StreamerOps /\ frame'[p].supplied = None
               /\ StreamerRefreshNeeded(frame'[p].force_refresh)
               /\ AccessRefreshNeeded(FALSE)) =>
            /\ frame'[p].pc = "done"
            /\ frame'[p].result.kind = "raise" /\ frame'[p].result.exc = "ValueError"
            /\ frame'[p].requests = <<>>
            /\ frame'[p].credential_loads = 1
            /\ session_state' = session_state
      ]_vars

\* only REFRESH_TOKEN is missing; the call failed and the streamer entry an
\* earlier call had stored is still there
C10_Witness ==
    /\ secrets = {"CLIENT_ID", "CLIENT_SECRET"}
    /\ frame[Main].op = "access" /\ frame[Main].pc = "done"
    /\ frame[Main].result.kind = "raise" /\ frame[Main].result.exc = "ValueError"
    /\ frame[Main].requests = <<>>
    /\ STREAMER_KEY \in DOMAIN session_state

\* --------------------------------------------------------------------- C11
\* a 200 answer without the token field
OAuthMalformed(r) ==
    r.kind = "response" /\ r.status_code = 200 /\ "access_token" \notin DOMAIN r.json
QuoteMalformed(r) ==
    /\ r.kind = "response" /\ r.status_code = 200
    /\ ~("data" \in DOMAIN r.json /\ "token" \in DOMAIN r.json.data)

\* C11: a 200 answer that lacks access_token (OAuth endpoint) or data.token
\* (quote-token endpoint) ends the call with the KeyError of the lookup:
\* nothing comes back as a token, no default stands in, and the entry of that
\* kind stays as it was.  A missing expires_in alone is made up for (900 s):
\* the call goes on with the token of the answer.
C11_MalformedSuccessPropagates ==
    [][\A p \in Procs :
        /\ AccessAnswered(p) /\ OAuthMalformed(Answer(p)) =>
            /\ frame'[p].pc = "done"
            /\ frame'[p].result = Raise("KeyError", "access_token", "")
            /\ EntryUnchanged(ACCESS_KEY)
        /\ StreamerAnswered(p) /\ QuoteMalformed(Answer(p)) =>
            /\ frame'[p].pc = "done"
            /\ frame'[p].result.kind = "raise" /\ frame'[p].result.exc = "KeyError"
            /\ frame'[p].result.prefix \in {"data", "token"}
            /\ EntryUnchanged(STREAMER_KEY)
        /\ (/\ AccessAnswered(p) /\ OAuthSuccess(Answer(p))
            /\ "expires_in" \notin DOMAIN Answer(p).json) =>
            /\ frame'[p].result.kind # "raise"
            /\ frame'[p].access_token = Answer(p).json.access_token
                   \/ frame'[p].result = Return(Answer(p).json.access_token)
            /\ session_state'[ACCESS_KEY] =
                   [access_token |-> Answer(p).json.access_token, expires_at |-> now + 900]
      ]_vars

\* the quote-token endpoint answered 200 with a data object that has no token,
\* while a streamer entry was cached
C11_Witness ==
    /\ frame[Main].op \in StreamerOps /\ frame[Main].pc = "done"
    /\ frame[Main].result = Raise("KeyError", "token", "")
    /\ STREAMER_KEY \in frame[Main].found
    /\ STREAMER_KEY \in DOMAIN session_state

\* --------------------------------------------------------------------- C12
\* how many requests of a call went to an endpoint
Count(requests, url) == Cardinality({i \in 1..Len(requests) : requests[i] = url})

\* the i-th answer of call f is a failure: an exception of the transport, a
\* status other than 200, or a 200 without the token
FailedAnswer(f, i) ==
    IF f.requests[i] = TOKEN_URL THEN ~OAuthSuccess(f.responses[i])
    ELSE ~QuoteSuccess(f.responses[i])

\* C12: there is no retry inside a call.  One get_access_token issues at most
\* one request to the OAuth endpoint; one get_streamer_token issues at most one
\* to the OAuth endpoint and at most one to the quote-token endpoint, whatever
\* the answers are; the first failing answer is the last thing the call gets
\* and the call ends with an error.
C12_NoInternalRetry ==
    \A p \in Procs :
        LET f == frame[p] IN
        /\ Count(f.requests, TOKEN_URL) <= 1
        /\ Count(f.requests, QUOTE_URL) <= 1
        /\ f.op = "access" => Len(f.requests) <= 1
        /\ Len(f.responses) <= Len(f.requests)
        /\ \A i \in 1..Len(f.responses) :
            FailedAnswer(f, i) =>
                /\ i = Len(f.responses) /\ i = Len(f.requests)
                /\ f.pc = "done" /\ f.result.kind = "raise"

\* the OAuth exchange went through, the quote-token request failed on the
\* wire, and the call ended there
C12_Witness ==
    /\ frame[Main].op \in StreamerOps /\ frame[Main].pc = "done"
    /\ frame[Main].requests = <<TOKEN_URL, QUOTE_URL>>
    /\ Len(frame[Main].responses) = 2
    /\ frame[Main].responses[2].kind = "ConnectionError"
    /\ frame[Main].result.kind = "raise"

\* --------------------------------------------------------------------- C13
\* frame f under the name of the other entry point
As(f, op) == [f EXCEPT !.op = op]

\* C13: ensure_streamer_token() is get_streamer_token(None, False).  It runs
\* with no token supplied and without force; from the same session state,
\* clock and answers each of its steps leaves the frame (result or error,
\* requests made) and the session state that the same step of
\* get_streamer_token(None, False) leaves; and whenever it returns a value the
\* streamer entry holds that value with now + 300 < expires_at.
C13_EnsureIsDefaultStreamerCall ==
    [][\A p \in Procs :
        /\ frame'[p].op = "ensure" =>
            frame'[p].supplied = None /\ ~frame'[p].force_refresh
        /\ Entered(p) /\ frame'[p].op = "ensure" =>
            /\ frame'[p] =
                   As(Stamp(StreamerEntry(NewFrame("streamer", None, FALSE, session_state),
                                          session_state, now, secrets), now), "ensure")
            /\ session_state' = session_state
        /\ AccessAnswered(p) /\ frame[p].op = "ensure" =>
            /\ frame'[p] =
                   As(Stamp(AccessAnswer(As(frame[p], "streamer"), Answer(p)), now),
                      "ensure")
            /\ session_state' = AccessAnswerState(session_state, Answer(p), now)
        /\ StreamerAnswered(p) /\ frame[p].op = "ensure" =>
            /\ frame'[p] =
                   As(Stamp(StreamerAnswer(As(frame[p], "streamer"), Answer(p)), now),
                      "ensure")
            /\ session_state' = StreamerAnswerState(session_state, Answer(p), now)
        /\ (/\ frame'[p] # frame[p] /\ frame'[p].op = "ensure"
            /\ frame'[p].pc = "done" /\ frame'[p].result.kind = "return") =>
            /\ STREAMER_KEY \in DOMAIN session_state'
            /\ session_state'[STREAMER_KEY].token = frame'[p].result.value
            /\ now + 300 < session_state'[STREAMER_KEY].expires_at
      ]_vars

\* ensure_streamer_token() returned the cached token in the last second in
\* which it may
C13_Witness ==
    /\ frame[Main].op = "ensure"
    /\ STREAMER_KEY \in DOMAIN session_state
    /\ ServedFromCache(frame[Main], session_state[STREAMER_KEY].token)
    /\ session_state[STREAMER_KEY].expires_at = now + 301

\* ------------------------------------------------ unsynchronized callers
\* two callers on one session state, nothing between them but the order in
\* which their steps happen to run
\* get_access_token() with its default argument
CallAccessDefault(p) ==
    /\ AtRest(p)
    /\ frame' = [frame EXCEPT
                    ![p] = Stamp(AccessEntry(NewFrame("access", None, FALSE, session_state),
                                             session_state, now, secrets), now)]
    /\ UNCHANGED <<now, ticks, secrets, session_state>>

\* the secrets are all there
InitConc ==
    /\ now = 0
    /\ ticks = 0
    /\ secrets = SecretKeys
    /\ session_state = EmptyObj
    /\ frame = [p \in Procs |-> IdleFrame]

\* the answers the endpoints give here: two successes that differ in token and
\* validity, and one refusal
OAuthResponsesConc ==
    {r \in OAuthResponses :
        \/ r.status_code = StatusOK /\ r.json \in {[access_token |-> "AT1", expires_in |-> 61],
                                                  [access_token |-> "AT2"]}
        \/ r.status_code = 401}

QuoteResponsesConc ==
    {r \in QuoteResponses :
        \/ r.status_code = StatusOK /\ r.json = [data |-> [token |-> "ST1"]]
        \/ r.status_code = 500}

\* requests.post comes back
AccessResponseConc(p) ==
    /\ frame[p].pc = "a_wait"
    /\ \E r \in OAuthResponsesConc :
        /\ session_state' = AccessAnswerState(session_state, r, now)
        /\ frame' = [frame EXCEPT ![p] = Stamp(AccessAnswer(frame[p], r), now)]
    /\ UNCHANGED <<now, ticks, secrets>>

\* requests.get comes back
StreamerResponseConc(p) ==
    /\ frame[p].pc = "s_wait"
    /\ \E r \in QuoteResponsesConc :
        /\ session_state' = StreamerAnswerState(session_state, r, now)
        /\ frame' = [frame EXCEPT ![p] = Stamp(StreamerAnswer(frame[p], r), now)]
    /\ UNCHANGED <<now, ticks, secrets>>

NextConc ==
    \/ \E p \in Procs : CallAccessDefault(p)
    \/ \E p \in Procs : CallEnsure(p)
    \/ \E p \in Procs : AccessResponseConc(p)
    \/ \E p \in Procs : StreamerResponseConc(p)
    \/ Tick

SpecConc == InitConc /\ [][NextConc]_vars

\* --------------------------------------------------------------------- C14
Other == "other"

\* C14: under any interleaving of two callers the session state holds at most
\* one entry per kind, each a pair of a value and an expiry, and every change
\* of an entry puts in place, whole, the pair of one successful answer: its
\* token with the expiry computed from that same answer at that same instant.
C14_EntriesWrittenWhole ==
    [][/\ DOMAIN session_state' \subseteq {ACCESS_KEY, STREAMER_KEY}
       /\ ACCESS_KEY \in DOMAIN session_state' =>
            DOMAIN session_state'[ACCESS_KEY] = {"access_token", "expires_at"}
       /\ STREAMER_KEY \in DOMAIN session_state' =>
            DOMAIN session_state'[STREAMER_KEY] = {"token", "expires_at"}
       /\ ~EntryUnchanged(ACCESS_KEY) =>
            \E p \in Procs :
                /\ AccessAnswered(p) /\ OAuthSuccess(Answer(p))
                /\ session_state'[ACCESS_KEY] =
                       [access_token |-> Answer(p).json.access_token,
                        expires_at |-> now + (IF "expires_in" \in DOMAIN Answer(p).json
                                              THEN Answer(p).json.expires_in ELSE 900)]
       /\ ~EntryUnchanged(STREAMER_KEY) =>
            \E p \in Procs :
                /\ StreamerAnswered(p) /\ QuoteSuccess(Answer(p))
                /\ session_state'[STREAMER_KEY] =
                       [token |-> Answer(p).json.data.token, expires_at |-> now + 72000]
      ]_vars

\* two overlapping refreshes, answered differently one after the other: the
\* entry is the pair of the later answer, nothing of the earlier one is left
C14_Witness ==
    /\ frame[Main].op = "access" /\ frame[Main].found = {}
    /\ frame[Other].op = "access" /\ frame[Other].found = {}
    /\ frame[Main].result = Return("AT1")
    /\ frame[Main].responses[1].json = [access_token |-> "AT1", expires_in |-> 61]
    /\ frame[Main].at = 0
    /\ frame[Other].result = Return("AT2")
    /\ frame[Other].at = 1
    /\ session_state[ACCESS_KEY] = [access_token |-> "AT2", expires_at |-> 901]

\* --------------------------------------------------------------------- C15
\* the validity the OAuth answer r gives its token
Validity(r) == IF "expires_in" \in DOMAIN r.json THEN r.json.expires_in ELSE 900

\* nothing fresh to hand out: no access entry, or one with now + 60 >= expires_at
AccessStale ==
    ~(/\ ACCESS_KEY \in DOMAIN session_state
      /\ now + 60 < session_state[ACCESS_KEY].expires_at)

\* caller p is through with a get_access_token() that made the exchange, and
\* the entry it stored, valid for longer than the margin, is the one in place
\* and still has more than the margin to go
StoredAndInWindow(p) ==
    /\ frame[p].op = "access" /\ frame[p].pc = "done"
    /\ frame[p].requests = <<TOKEN_URL>> /\ frame[p].result.kind = "return"
    /\ Validity(frame[p].responses[1]) > 60
    /\ ACCESS_KEY \in DOMAIN session_state
    /\ session_state[ACCESS_KEY] =
           [access_token |-> frame[p].result.value,
            expires_at |-> frame[p].at + Validity(frame[p].responses[1])]
    /\ now + 60 < frame[p].at + Validity(frame[p].responses[1])

\* C15: check, exchange and store are not a critical section.  A caller that
\* enters a non-forced get_access_token while another caller's exchange is in
\* flight, and finds nothing fresh, issues an exchange of its own: both have
\* seen "stale" before either stores.  With the callers one after the other
\* and a validity above the margin, the later caller issues none: it gets the
\* token the earlier one stored.
C15_DuplicateRefreshRace ==
    [][\A p, q \in Procs :
        /\ (/\ p # q /\ frame[p].pc = "a_wait" /\ frame[p].op = "access"
            /\ AccessStale
            /\ Entered(q) /\ frame'[q].op = "access" /\ ~frame'[q].force_refresh) =>
            /\ frame'[q].pc = "a_wait" /\ frame'[q].requests = <<TOKEN_URL>>
            /\ frame'[p].pc = "a_wait" /\ frame'[p].requests = <<TOKEN_URL>>
            /\ session_state' = session_state
        /\ (/\ \A r \in Procs : AtRest(r)
            /\ StoredAndInWindow(p)
            /\ Entered(q) /\ frame'[q].op = "access" /\ ~frame'[q].force_refresh) =>
            ServedFromCache(frame'[q], frame[p].result.value)
      ]_vars

\* both callers found the same stale entry and both have an exchange in flight
C15_Witness ==
    /\ \A p \in Procs :
        /\ frame[p].op = "access" /\ ~frame[p].force_refresh
        /\ frame[p].pc = "a_wait" /\ frame[p].requests = <<TOKEN_URL>>
        /\ ACCESS_KEY \in frame[p].found
    /\ ACCESS_KEY \in DOMAIN session_state
    /\ now + 60 >= session_state[ACCESS_KEY].expires_at

\* --------------------------------------------------------------------- C16
\* caller p is in, or enters, a get_streamer_token that was given an access
\* token, and takes a step of it
SuppliedStep(p) ==
    /\ frame'[p] # frame[p]
    /\ frame'[p].op = "streamer" /\ frame'[p].supplied # None

\* C16: an access token passed to get_streamer_token is the bearer token of the
\* quote-token request as it was given, whatever the access entry holds: the
\* call makes no freshness check of the access entry, no OAuth request and no
\* credential load, and the access entry is the same after each of its steps,
\* whether the call succeeds or fails.
C16_SuppliedTokenUsedAsGiven ==
    [][\A p \in Procs : SuppliedStep(p) =>
        /\ ~Has(frame'[p].requests, TOKEN_URL)
        /\ frame'[p].pc # "a_wait"
        /\ frame'[p].credential_loads = 0
        /\ ACCESS_KEY \notin frame'[p].touched
        /\ EntryUnchanged(ACCESS_KEY)
        /\ (Entered(p) /\ StreamerRefreshNeeded(frame'[p].force_refresh)) =>
              QuoteRequestSent(frame'[p], frame'[p].supplied)
        /\ Has(frame'[p].requests, QUOTE_URL) =>
              /\ frame'[p].requests = <<QUOTE_URL>>
              /\ frame'[p].access_token = frame'[p].supplied
      ]_vars

\* a call given a token other than the cached one got its streamer token, and
\* the access entry, stale by then, still holds what it held
C16_Witness ==
    /\ frame[Main].op = "streamer" /\ frame[Main].supplied = "ATX"
    /\ frame[Main].pc = "done" /\ frame[Main].result.kind = "return"
    /\ frame[Main].requests = <<QUOTE_URL>>
    /\ ACCESS_KEY \in frame[Main].found
    /\ ACCESS_KEY \in DOMAIN session_state
    /\ session_state[ACCESS_KEY].access_token # "ATX"
    /\ now + 60 >= session_state[ACCESS_KEY].expires_at

\* --------------------------------------------------------------------- C17
\* what get_access_token raises on an answer r that gives it no token
AccessError(r) ==
    IF r.kind # "response" THEN [kind |-> "raise", exc |-> r.kind, prefix |-> "", text |-> ""]
    ELSE IF r.status_code # 200
         THEN [kind |-> "raise", exc |-> "Exception", prefix |-> "Token error: ",
               text |-> r.text]
         ELSE [kind |-> "raise", exc |-> "KeyError", prefix |-> "access_token", text |-> ""]

\* C17: when the get_access_token() inside a streamer-token acquisition fails,
\* on a missing secret, on a non-success or malformed OAuth answer, or on the
\* transport, the acquisition ends with that very error, no quote-token request
\* is sent, and the streamer entry stays as it was.
C17_NestedAccessFailurePropagates ==
    [][\A p \in Procs :
        /\ (/\ AccessAnswered(p) /\ frame[p].op \in StreamerOps
            /\ ~OAuthSuccess(Answer(p))) =>
            /\ frame'[p].pc = "done"
            /\ frame'[p].result = AccessError(Answer(p))
            /\ frame'[p].requests = <<TOKEN_URL>>
            /\ EntryUnchanged(STREAMER_KEY)
        /\ (/\ Entered(p) /\ frame'[p].op \in StreamerOps /\ frame'[p].supplied = None
            /\ StreamerRefreshNeeded(frame'[p].force_refresh)
            /\ AccessStale
            /\ ~(SecretKeys \subseteq secrets)) =>
            /\ ConfigurationError(frame'[p])
            /\ EntryUnchanged(STREAMER_KEY)
        /\ (/\ frame'[p].op \in StreamerOps /\ Len(frame'[p].responses) >= 1
            /\ frame'[p].requests[1] = TOKEN_URL
            /\ ~OAuthSuccess(frame'[p].responses[1])) =>
            /\ frame'[p].pc = "done"
            /\ ~Has(frame'[p].requests, QUOTE_URL)
      ]_vars

\* a forced streamer refresh over an existing entry stopped at the refused
\* OAuth exchange; the entry is still there
C17_Witness ==
    /\ frame[Main].op = "streamer" /\ frame[Main].pc = "done"
    /\ frame[Main].requests = <<TOKEN_URL>>
    /\ Len(frame[Main].responses) = 1 /\ frame[Main].responses[1].kind = "response"
    /\ frame[Main].responses[1].status_code = 401
    /\ frame[Main].result.kind = "raise"
    /\ STREAMER_KEY \in frame[Main].found
    /\ STREAMER_KEY \in DOMAIN session_state

\* --------------------------------------------------------------------- C18
\* frame f is a streamer-token acquisition that refreshed the access token and
\* then failed at the quote-token request
PartialRefresh(f) ==
    /\ f.op \in StreamerOps /\ f.pc = "done" /\ f.result.kind = "raise"
    /\ f.requests = <<TOKEN_URL, QUOTE_URL>>

\* C18: a streamer-token acquisition is not all-or-nothing.  Its nested access
\* refresh stores the new access entry before the quote-token request goes
\* out; when that request then fails the call ends with the error, the streamer
\* entry is as it was and the access entry stays overwritten.  A later
\* non-forced acquisition, while that entry has more than 60 s to go, takes the
\* access token from it and issues no OAuth exchange.
C18_PartialRefreshKeepsAccessToken ==
    [][\A p \in Procs :
        /\ (/\ AccessAnswered(p) /\ frame[p].op \in StreamerOps
            /\ OAuthSuccess(Answer(p))) =>
            /\ frame'[p].pc = "s_wait"
            /\ ACCESS_KEY \in DOMAIN session_state'
            /\ session_state'[ACCESS_KEY] =
                   [access_token |-> Answer(p).json.access_token,
                    expires_at |-> now + Validity(Answer(p))]
        /\ (/\ StreamerAnswered(p) /\ frame[p].requests = <<TOKEN_URL, QUOTE_URL>>
            /\ ~QuoteSuccess(Answer(p))) =>
            /\ PartialRefresh(frame'[p])
            /\ EntryUnchanged(STREAMER_KEY)
            /\ ACCESS_KEY \in DOMAIN session_state'
            /\ session_state'[ACCESS_KEY].access_token = frame[p].access_token
            /\ session_state'[ACCESS_KEY] = session_state[ACCESS_KEY]
        /\ (/\ PartialRefresh(frame[p])
            /\ ~AccessStale
            /\ Entered(p) /\ ~frame'[p].force_refresh /\ frame'[p].supplied = None) =>
            /\ ~Has(frame'[p].requests, TOKEN_URL)
            /\ frame'[p].credential_loads = 0
            /\ frame'[p].op = "access" =>
                  ServedFromCache(frame'[p], frame[p].responses[1].json.access_token)
            /\ (frame'[p].op \in StreamerOps /\ StreamerRefreshNeeded(FALSE)) =>
                  QuoteRequestSent(frame'[p], frame[p].responses[1].json.access_token)
      ]_vars

\* the quote-token endpoint refused a cold acquisition after the OAuth exchange
\* went through: no streamer entry, and an access entry that was not there at
\* the start and is still fresh
C18_Witness ==
    /\ PartialRefresh(frame[Main])
    /\ NonSuccess(frame[Main].responses[2])
    /\ ACCESS_KEY \notin frame[Main].found
    /\ STREAMER_KEY \notin DOMAIN session_state
    /\ ~AccessStale
    /\ session_state[ACCESS_KEY].access_token = frame[Main].responses[1].json.access_token

====
